---------------------------- MODULE Spec2Model ----------------------------
(***************************************************************************)
(* Authentication and authorization core of the real-estate backend:       *)
(* password hashing, JWT creation and verification (core/security.py),     *)
(* the request dependencies get_current_user and require_admin             *)
(* (dependencies/auth.py) and the login / register routes (api/auth.py).   *)
(*                                                                         *)
(* Time is counted in seconds.  A call of a Python function is modelled by *)
(* an operator that yields an outcome record: Return(v) for a normal       *)
(* return, Raise(exc, detail) for a propagating exception, and             *)
(* HTTPException(status, detail, headers) for FastAPI's typed failure.     *)
(***************************************************************************)
EXTENDS Integers, FiniteSets, Sequences, TLC

VARIABLES users, nextId, now, tok, resp, pending

vars == <<users, nextId, now, tok, resp, pending>>

(***************************************************************************)
(* Bounds of the model.                                                    *)
(***************************************************************************)
MaxTime == 100
TickSeconds == 45
MaxId == 3

(***************************************************************************)
(* Settings (core/config.py): values read from the environment once.       *)
(***************************************************************************)
SECRET_KEY == "secret-key"
JWT_ALGORITHM == "HS256"
JWT_ISSUER == "real-estate-api"
JWT_AUDIENCE == "real-estate-clients"
ACCESS_TOKEN_EXPIRE_MINUTES == 1

(***************************************************************************)
(* Python values and call outcomes.                                        *)
(***************************************************************************)
None == "None"

Return(v) == [kind |-> "return", value |-> v]

Raise(exc, detail) == [kind |-> "raise", exc |-> exc, detail |-> detail]

HTTPException(status, detail, headers) ==
    [kind |-> "raise", exc |-> "HTTPException", status |-> status,
     detail |-> detail, headers |-> headers]

NoHeaders == "{}"
BearerHeaders == "WWW-Authenticate: Bearer"

\* dict.get(key): the value, or None when the key is absent
Get(d, k) == IF k \in DOMAIN d THEN d[k] ELSE None

\* jose.exceptions: ExpiredSignatureError and JWTClaimsError derive from JWTError
IsInstance(exc, cls) ==
    \/ exc = cls
    \/ cls = "JWTError" /\ exc \in {"ExpiredSignatureError", "JWTClaimsError"}

\* datetime.timedelta(minutes=m), in seconds
timedelta_minutes(m) == m * 60

(***************************************************************************)
(* Password Hasher (core/security.py, passlib bcrypt context).  A bcrypt   *)
(* hash string carries its scheme tag, its salt and the digest of salt and *)
(* password; the digest is modelled as the pair itself (one-way, no        *)
(* collisions).                                                            *)
(***************************************************************************)
Passwords == {"pw123", "hunter2"}
Salts == {"saltA", "saltB"}

bcrypt_digest(salt, password) == <<salt, password>>

\* _pwd_context.hash(password): the salt is drawn at random by the caller
get_password_hash(password, salt) ==
    [scheme |-> "$2b$", salt |-> salt, digest |-> bcrypt_digest(salt, password)]

\* _pwd_context.verify(plain, hashed): the context identifies the scheme by
\* the hash's prefix (UnknownHashError when it is not bcrypt's), the bcrypt
\* handler parses the string (ValueError when salt and checksum are not
\* complete), and the digest is recomputed with the embedded salt
verify_password(plain_password, hashed_password) ==
    IF hashed_password.scheme # "$2b$"
    THEN Raise("UnknownHashError", "hash could not be identified")
    ELSE IF Len(hashed_password.digest) # 2
    THEN Raise("ValueError", "malformed bcrypt hash")
    ELSE Return(hashed_password.digest
                    = bcrypt_digest(hashed_password.salt, plain_password))

(***************************************************************************)
(* Token wire format: header.claims.signature.  A token is a record of its *)
(* decoded segments; wf = FALSE stands for a string that does not split    *)
(* into three decodable segments.  The signature of jose's HS256 is        *)
(* modelled as an ideal MAC over the header and the claims: its value      *)
(* names the key and the signed content, and `flipped` marks a signature   *)
(* segment with a character changed.                                       *)
(***************************************************************************)
NoClaims == [k \in {} |-> None]

HMAC(key, alg, claims) ==
    [key |-> key, alg |-> alg, claims |-> claims, flipped |-> FALSE]

Token(alg, claims, sig) == [wf |-> TRUE, alg |-> alg, claims |-> claims, sig |-> sig]

BrokenToken ==
    [wf |-> FALSE, alg |-> "", claims |-> NoClaims, sig |-> HMAC("", "", NoClaims)]

\* jose.jwt.encode(payload, key, algorithm)
jwt_encode(payload, key, algorithm) ==
    Token(algorithm, payload, HMAC(key, algorithm, payload))

\* jose.jws.verify inside jwt.decode: structure, allowed algorithm, signature
jws_verify(token, key, algorithms) ==
    IF ~token.wf THEN Raise("JWSError", "Not enough segments")
    ELSE IF token.alg \notin algorithms
    THEN Raise("JWSError", "The specified alg value is not allowed")
    ELSE IF token.sig # HMAC(key, token.alg, token.claims)
    THEN Raise("JWSError", "Signature verification failed.")
    ELSE Return(token.claims)

\* jose.jwt._validate_claims with the default options: exp, then aud, then iss
validate_claims(claims, audience, issuer, t) ==
    IF "exp" \in DOMAIN claims /\ claims["exp"] < t
    THEN Raise("ExpiredSignatureError", "Signature has expired.")
    ELSE IF "aud" \in DOMAIN claims /\ claims["aud"] # audience
    THEN Raise("JWTClaimsError", "Invalid audience")
    ELSE IF issuer # None /\ Get(claims, "iss") # issuer
    THEN Raise("JWTClaimsError", "Invalid issuer")
    ELSE Return(claims)

\* jose.jwt.decode(token, key, algorithms, audience, issuer) at time t
jwt_decode(token, key, algorithms, audience, issuer, t) ==
    LET v == jws_verify(token, key, algorithms)
    IN  IF v.kind = "raise" THEN Raise("JWTError", v.detail)
        ELSE validate_claims(v.value, audience, issuer, t)

(***************************************************************************)
(* Token Codec (core/security.py).                                         *)
(***************************************************************************)
NoDelta == <<>>
Minutes(m) == <<m>>

\* Variant: a delta that is not positive falls back to the default lifetime
create_access_token_body_positive_only(subject, expires_delta, t) ==
    LET issued_at == t
        expires_at == IF expires_delta # NoDelta /\ expires_delta[1] > 0
                      THEN issued_at + timedelta_minutes(expires_delta[1])
                      ELSE issued_at + timedelta_minutes(ACCESS_TOKEN_EXPIRE_MINUTES)
        payload == [sub |-> subject, iat |-> issued_at, exp |-> expires_at,
                    iss |-> JWT_ISSUER, aud |-> JWT_AUDIENCE]
    IN  Return(jwt_encode(payload, SECRET_KEY, JWT_ALGORITHM))

\* Variant: the delta is tested for truth, so 0 falls back to the default
create_access_token_body_zero_is_default(subject, expires_delta, t) ==
    LET issued_at == t
        expires_at == IF expires_delta # NoDelta /\ expires_delta[1] # 0
                      THEN issued_at + timedelta_minutes(expires_delta[1])
                      ELSE issued_at + timedelta_minutes(ACCESS_TOKEN_EXPIRE_MINUTES)
        payload == [sub |-> subject, iat |-> issued_at, exp |-> expires_at,
                    iss |-> JWT_ISSUER, aud |-> JWT_AUDIENCE]
    IN  Return(jwt_encode(payload, SECRET_KEY, JWT_ALGORITHM))

\* create_access_token(subject, expires_delta=None), called at time t
create_access_token_body(subject, expires_delta, t) ==
    LET issued_at == t
        expires_at == IF expires_delta # NoDelta
                      THEN issued_at + timedelta_minutes(expires_delta[1])
                      ELSE issued_at + timedelta_minutes(ACCESS_TOKEN_EXPIRE_MINUTES)
        payload == [sub |-> subject, iat |-> issued_at, exp |-> expires_at,
                    iss |-> JWT_ISSUER, aud |-> JWT_AUDIENCE]
    IN  Return(jwt_encode(payload, SECRET_KEY, JWT_ALGORITHM))

\* The call create_access_token(**kwargs): Python binds the keyword arguments
\* to the signature (subject, expires_delta=None) before the body runs.
create_access_token(kwargs, t) ==
    IF ~(DOMAIN kwargs \subseteq {"subject", "expires_delta"})
    THEN Raise("TypeError", "create_access_token() got an unexpected keyword argument")
    ELSE IF "subject" \notin DOMAIN kwargs
    THEN Raise("TypeError", "create_access_token() missing 1 required positional argument")
    ELSE create_access_token_body(
             kwargs["subject"],
             IF "expires_delta" \in DOMAIN kwargs THEN kwargs["expires_delta"] ELSE NoDelta,
             t)

\* Variant: the claims are validated but the signature is not
verify_access_token_unsigned(token, t) ==
    LET d == IF token.wf
             THEN validate_claims(token.claims, JWT_AUDIENCE, JWT_ISSUER, t)
             ELSE Raise("JWTError", "Not enough segments")
    IN  IF d.kind = "return" THEN Return(d.value)
        ELSE IF IsInstance(d.exc, "ExpiredSignatureError")
        THEN Raise("ExpiredSignatureError", "Token has expired")
        ELSE IF IsInstance(d.exc, "JWTError")
        THEN Raise("JWTError", "Token is invalid or corrupted")
        ELSE d

\* Variant: jwt.decode is called without the issuer argument
verify_access_token_no_issuer(token, t) ==
    LET d == jwt_decode(token, SECRET_KEY, {JWT_ALGORITHM}, JWT_AUDIENCE, None, t)
    IN  IF d.kind = "return" THEN Return(d.value)
        ELSE IF IsInstance(d.exc, "ExpiredSignatureError")
        THEN Raise("ExpiredSignatureError", "Token has expired")
        ELSE IF IsInstance(d.exc, "JWTError")
        THEN Raise("JWTError", "Token is invalid or corrupted")
        ELSE d

\* Variant: the except clauses in the other order (JWTError tried first)
verify_access_token_swapped_except(token, t) ==
    LET d == jwt_decode(token, SECRET_KEY, {JWT_ALGORITHM}, JWT_AUDIENCE, JWT_ISSUER, t)
    IN  IF d.kind = "return" THEN Return(d.value)
        ELSE IF IsInstance(d.exc, "JWTError")
        THEN Raise("JWTError", "Token is invalid or corrupted")
        ELSE IF IsInstance(d.exc, "ExpiredSignatureError")
        THEN Raise("ExpiredSignatureError", "Token has expired")
        ELSE d

\* verify_access_token(token) at time t
verify_access_token(token, t) ==
    LET d == jwt_decode(token, SECRET_KEY, {JWT_ALGORITHM}, JWT_AUDIENCE, JWT_ISSUER, t)
    IN  IF d.kind = "return" THEN Return(d.value)
        ELSE IF IsInstance(d.exc, "ExpiredSignatureError")
        THEN Raise("ExpiredSignatureError", "Token has expired")
        ELSE IF IsInstance(d.exc, "JWTError")
        THEN Raise("JWTError", "Token is invalid or corrupted")
        ELSE d

(***************************************************************************)
(* Request Identity Resolver and Role Gate (dependencies/auth.py).         *)
(***************************************************************************)
\* Variant: on an expired token the subject is read from the unverified claims
get_current_user_reads_expired(raw_token, t) ==
    LET r == verify_access_token(raw_token, t)
    IN  IF r.kind = "return"
        THEN LET user_email == Get(r.value, "sub")
             IN  IF user_email = None
                 THEN HTTPException(401, "Token missing subject claim", BearerHeaders)
                 ELSE Return(user_email)
        ELSE IF IsInstance(r.exc, "ExpiredSignatureError")
        THEN Return(Get(raw_token.claims, "sub"))
        ELSE IF IsInstance(r.exc, "JWTError")
        THEN HTTPException(401, "Invalid or corrupted token", BearerHeaders)
        ELSE r

\* Variant: the subject is returned without the check that it is present
get_current_user_unchecked_subject(raw_token, t) ==
    LET r == verify_access_token(raw_token, t)
    IN  IF r.kind = "return"
        THEN Return(Get(r.value, "sub"))
        ELSE IF IsInstance(r.exc, "ExpiredSignatureError")
        THEN HTTPException(401, "Token has expired", BearerHeaders)
        ELSE IF IsInstance(r.exc, "JWTError")
        THEN HTTPException(401, "Invalid or corrupted token", BearerHeaders)
        ELSE r

\* Variant: the except clauses in the other order (JWTError tried first)
get_current_user_jwterror_first(raw_token, t) ==
    LET r == verify_access_token(raw_token, t)
    IN  IF r.kind = "return"
        THEN LET user_email == Get(r.value, "sub")
             IN  IF user_email = None
                 THEN HTTPException(401, "Token missing subject claim", BearerHeaders)
                 ELSE Return(user_email)
        ELSE IF IsInstance(r.exc, "JWTError")
        THEN HTTPException(401, "Invalid or corrupted token", BearerHeaders)
        ELSE IF IsInstance(r.exc, "ExpiredSignatureError")
        THEN HTTPException(401, "Token has expired", BearerHeaders)
        ELSE r

\* get_current_user(token) at time t
get_current_user(raw_token, t) ==
    LET r == verify_access_token(raw_token, t)
    IN  IF r.kind = "return"
        THEN LET user_email == Get(r.value, "sub")
             IN  IF user_email = None
                 THEN HTTPException(401, "Token missing subject claim", BearerHeaders)
                 ELSE Return(user_email)
        ELSE IF IsInstance(r.exc, "ExpiredSignatureError")
        THEN HTTPException(401, "Token has expired", BearerHeaders)
        ELSE IF IsInstance(r.exc, "JWTError")
        THEN HTTPException(401, "Invalid or corrupted token", BearerHeaders)
        ELSE r

\* Variant: the gate also requires an active row for the token's subject
require_admin_checks_row(raw_token, t) ==
    LET r == verify_access_token(raw_token, t)
    IN  IF r.kind = "raise" THEN r
        ELSE LET role == Get(r.value, "role")
                 sub == Get(r.value, "sub")
             IN  IF role # "admin"
                 THEN HTTPException(403, "Admin privileges required", NoHeaders)
                 ELSE IF sub = None
                 THEN HTTPException(401, "Token missing subject claim", BearerHeaders)
                 ELSE IF ~\E u \in users : u.email = sub /\ u.is_active
                 THEN HTTPException(401, "Invalid or corrupted token", BearerHeaders)
                 ELSE Return(sub)

\* require_admin(token) at time t: no try/except around verify_access_token
require_admin(raw_token, t) ==
    LET r == verify_access_token(raw_token, t)
    IN  IF r.kind = "raise" THEN r
        ELSE LET role == Get(r.value, "role")
                 sub == Get(r.value, "sub")
             IN  IF role # "admin"
                 THEN HTTPException(403, "Admin privileges required", NoHeaders)
                 ELSE IF sub = None
                 THEN HTTPException(401, "Token missing subject claim", BearerHeaders)
                 ELSE Return(sub)

(***************************************************************************)
(* Persistence store: the users table (db/models.py).  A row is a record   *)
(* of the columns; email carries a unique constraint, role defaults to     *)
(* "staff" and is_active to true.                                          *)
(***************************************************************************)
Emails == {"a@x.com", "A@x.com", "admin@x.com"}
NewEmails == {"a@x.com", "A@x.com"}
FullNames == {None}
RoleIdSets == {{}, {1}}
RoleTable == {[id |-> 1, name |-> "admin"], [id |-> 2, name |-> "staff"]}

User(id, email, full_name, hashed_password, role, is_active, roles) ==
    [id |-> id, email |-> email, full_name |-> full_name,
     hashed_password |-> hashed_password, role |-> role,
     is_active |-> is_active, roles |-> roles]

\* A row inserted directly into the table (an administrator account).
AdminSeed ==
    User(1, "admin@x.com", None, get_password_hash("pw123", "saltA"),
         "admin", TRUE, {})

\* Query.first(): no row (the empty set, Python's None) or one row
first(rows) == IF rows = {} THEN {} ELSE {CHOOSE u \in rows : TRUE}

row(r) == CHOOSE u \in r : TRUE

\* db.query(User).filter(User.email == email).first()
find_by_email(store, email) == first({u \in store : u.email = email})

(***************************************************************************)
(* Credential Authenticator (api/auth.py).                                 *)
(***************************************************************************)
TokenResponse(access_token, token_type) ==
    [access_token |-> access_token, token_type |-> token_type]

\* Variant: an unknown email is answered with its own failure
login_reveals_unknown(store, username, password, t) ==
    LET user == find_by_email(store, username)
        invalid == HTTPException(401, "Invalid credentials", BearerHeaders)
    IN  IF user = {} THEN HTTPException(404, "User not found", NoHeaders)
        ELSE LET v == verify_password(password, row(user).hashed_password)
             IN  IF v.kind = "raise" THEN v
                 ELSE IF ~v.value THEN invalid
                 ELSE LET c == create_access_token(
                                   [subject |-> row(user).email, role |-> row(user).role,
                                    expires_delta |-> NoDelta], t)
                      IN  IF c.kind = "raise" THEN c
                          ELSE Return(TokenResponse(c.value, "bearer"))

\* login(form_data, db) at time t
login(store, username, password, t) ==
    LET user == find_by_email(store, username)
        invalid == HTTPException(401, "Invalid credentials", BearerHeaders)
    IN  IF user = {} THEN invalid
        ELSE LET v == verify_password(password, row(user).hashed_password)
             IN  IF v.kind = "raise" THEN v
                 ELSE IF ~v.value THEN invalid
                 ELSE LET c == create_access_token(
                                   [subject |-> row(user).email, role |-> row(user).role,
                                    expires_delta |-> NoDelta], t)
                      IN  IF c.kind = "raise" THEN c
                          ELSE Return(TokenResponse(c.value, "bearer"))

\* Variant: no duplicate check, the row for a known email is written again
register_user_overwrites(store, id, user_in, salt) ==
    LET hashed_password == get_password_hash(user_in.password, salt)
        roles == IF user_in.role_ids # {}
                 THEN {r.id : r \in {x \in RoleTable : x.id \in user_in.role_ids}}
                 ELSE {}
        new_user == User(id, user_in.email, user_in.full_name,
                         hashed_password, "staff", TRUE, roles)
    IN  [out |-> Return(new_user),
         store |-> {u \in store : u.email # user_in.email} \cup {new_user}]

\* Variant: the new row replaces the table instead of being added to it
register_user_replaces_rows(store, id, user_in, salt) ==
    LET existing_user == find_by_email(store, user_in.email)
    IN  IF existing_user # {}
        THEN [out |-> HTTPException(400, "A user with this email already exists.",
                                    NoHeaders),
              store |-> store]
        ELSE LET hashed_password == get_password_hash(user_in.password, salt)
                 roles == IF user_in.role_ids # {}
                          THEN {r.id : r \in {x \in RoleTable : x.id \in user_in.role_ids}}
                          ELSE {}
                 new_user == User(id, user_in.email, user_in.full_name,
                                  hashed_password, "staff", TRUE, roles)
             IN  [out |-> Return(new_user), store |-> {new_user}]

\* Variant: the password is stored as received
register_user_plaintext(store, id, user_in, salt) ==
    LET existing_user == find_by_email(store, user_in.email)
    IN  IF existing_user # {}
        THEN [out |-> HTTPException(400, "A user with this email already exists.",
                                    NoHeaders),
              store |-> store]
        ELSE LET hashed_password ==
                     [scheme |-> "plain", salt |-> "", digest |-> user_in.password]
                 roles == IF user_in.role_ids # {}
                          THEN {r.id : r \in {x \in RoleTable : x.id \in user_in.role_ids}}
                          ELSE {}
                 new_user == User(id, user_in.email, user_in.full_name,
                                  hashed_password, "staff", TRUE, roles)
             IN  [out |-> Return(new_user), store |-> store \cup {new_user}]

\* Variant: the role column follows the requested role ids
register_user_role_from_ids(store, id, user_in, salt) ==
    LET existing_user == find_by_email(store, user_in.email)
    IN  IF existing_user # {}
        THEN [out |-> HTTPException(400, "A user with this email already exists.",
                                    NoHeaders),
              store |-> store]
        ELSE LET hashed_password == get_password_hash(user_in.password, salt)
                 roles == IF user_in.role_ids # {}
                          THEN {r.id : r \in {x \in RoleTable : x.id \in user_in.role_ids}}
                          ELSE {}
                 new_user == User(id, user_in.email, user_in.full_name,
                                  hashed_password,
                                  IF 1 \in roles THEN "admin" ELSE "staff",
                                  TRUE, roles)
             IN  [out |-> Return(new_user), store |-> store \cup {new_user}]

\* register_user(user_in, db): the outcome, and the row it inserts (if any)
register_user(store, id, user_in, salt) ==
    LET existing_user == find_by_email(store, user_in.email)
    IN  IF existing_user # {}
        THEN [out |-> HTTPException(400, "A user with this email already exists.",
                                    NoHeaders),
              store |-> store]
        ELSE LET hashed_password == get_password_hash(user_in.password, salt)
                 roles == IF user_in.role_ids # {}
                          THEN {r.id : r \in {x \in RoleTable : x.id \in user_in.role_ids}}
                          ELSE {}
                 new_user == User(id, user_in.email, user_in.full_name,
                                  hashed_password, "staff", TRUE, roles)
             IN  [out |-> Return(new_user), store |-> store \cup {new_user}]

(***************************************************************************)
(* User CRUD routes (api/users.py).                                        *)
(***************************************************************************)
\* str.lower() and str.strip() on the strings of the model
lower(str) ==
    CASE str = "A@x.com" -> "a@x.com"
      [] str = "A@x.com " -> "a@x.com "
      [] OTHER -> str

strip(str) ==
    CASE str = "A@x.com " -> "A@x.com"
      [] str = "a@x.com " -> "a@x.com"
      [] OTHER -> str

\* db.query(User).filter(User.id == user_id).first()
find_by_id(store, user_id) == first({u \in store : u.id = user_id})

\* detail=f"User with ID {user_id} not found"
NotFound(user_id) ==
    HTTPException(404, <<"User with ID ", user_id, " not found">>, NoHeaders)

\* create_user(payload, db): payload.is_active and payload.role are read from
\* the UserCreate object, which raises AttributeError for a field it lacks
create_user(store, id, payload, salt) ==
    LET normalized_email == lower(payload.email)
        existing_user == find_by_email(store, strip(normalized_email))
    IN  IF existing_user # {}
        THEN [out |-> HTTPException(409, "Email already registered", NoHeaders),
              store |-> store]
        ELSE LET hashed_password == get_password_hash(payload.password, salt)
             IN  IF "is_active" \notin DOMAIN payload
                 THEN [out |-> Raise("AttributeError",
                                     "'UserCreate' object has no attribute 'is_active'"),
                       store |-> store]
                 ELSE IF "role" \notin DOMAIN payload
                 THEN [out |-> Raise("AttributeError",
                                     "'UserCreate' object has no attribute 'role'"),
                       store |-> store]
                 ELSE LET new_user ==
                              User(id, normalized_email, payload.full_name,
                                   hashed_password,
                                   IF payload["role"] \in {None, ""}
                                   THEN "staff" ELSE payload["role"],
                                   payload["is_active"], {})
                      IN  [out |-> Return(new_user), store |-> store \cup {new_user}]

\* update_user(user_id, payload, db), after Depends(require_admin) has run on
\* the bearer token of the request
NoFlag == <<>>
Flag(b) == <<b>>

\* Variant: the route body runs first and the gate's answer is given afterwards
update_user_body_before_gate(store, token, user_id, payload, t) ==
    LET gate == require_admin(token, t)
        user == find_by_id(store, user_id)
    IN  IF user = {}
        THEN [out |-> IF gate.kind = "raise" THEN gate ELSE NotFound(user_id),
              store |-> store]
        ELSE LET updated ==
                     [row(user) EXCEPT
                         !.full_name = payload.full_name,
                         !.is_active = IF payload.is_active # NoFlag
                                       THEN payload.is_active[1] ELSE @]
             IN  [out |-> IF gate.kind = "raise" THEN gate ELSE Return(updated),
                  store |-> (store \ user) \cup {updated}]

\* Variant: is_active is assigned from the payload even when it gives none
update_user_assigns_missing_flag(store, token, user_id, payload, t) ==
    LET gate == require_admin(token, t)
        user == find_by_id(store, user_id)
    IN  IF gate.kind = "raise" THEN [out |-> gate, store |-> store]
        ELSE IF user = {} THEN [out |-> NotFound(user_id), store |-> store]
        ELSE LET updated ==
                     [row(user) EXCEPT
                         !.full_name = payload.full_name,
                         !.is_active = IF payload.is_active # NoFlag
                                       THEN payload.is_active[1] ELSE FALSE]
             IN  [out |-> Return(updated),
                  store |-> (store \ user) \cup {updated}]

update_user(store, token, user_id, payload, t) ==
    LET gate == require_admin(token, t)
        user == find_by_id(store, user_id)
    IN  IF gate.kind = "raise" THEN [out |-> gate, store |-> store]
        ELSE IF user = {} THEN [out |-> NotFound(user_id), store |-> store]
        ELSE LET updated ==
                     [row(user) EXCEPT
                         !.full_name = payload.full_name,
                         !.is_active = IF payload.is_active # NoFlag
                                       THEN payload.is_active[1] ELSE @]
             IN  [out |-> Return(updated),
                  store |-> (store \ user) \cup {updated}]

\* Variant: deletion is refused unless the request's token passes require_admin
delete_user_admin_only(store, user_id) ==
    LET gate == require_admin(tok, now)
        user == find_by_id(store, user_id)
    IN  IF gate.kind = "raise" THEN [out |-> gate, store |-> store]
        ELSE IF user = {} THEN [out |-> NotFound(user_id), store |-> store]
        ELSE [out |-> Return(None), store |-> store \ user]

\* delete_user(user_id, db): no dependency on the bearer token
delete_user(store, user_id) ==
    LET user == find_by_id(store, user_id)
    IN  IF user = {} THEN [out |-> NotFound(user_id), store |-> store]
        ELSE [out |-> Return(None), store |-> store \ user]

(***************************************************************************)
(* The system: requests against the store, and the clock.                  *)
(***************************************************************************)
NoToken == BrokenToken
NoResp == [op |-> "none"]

UserCreateInputs ==
    [email : NewEmails, password : Passwords, full_name : FullNames,
     role_ids : RoleIdSets]

\* no /auth/register request is being handled step by step
NoRequests == <<>>

Init ==
    /\ users \in {{}, {AdminSeed}}
    /\ nextId = Cardinality(users) + 1
    /\ now = 0
    /\ tok = NoToken
    /\ resp = NoResp
    /\ pending = NoRequests

Tick ==
    /\ now + TickSeconds <= MaxTime
    /\ now' = now + TickSeconds
    /\ UNCHANGED <<pending, users, nextId, tok, resp>>

Login ==
    \E username \in Emails, password \in Passwords :
        /\ resp' = [op |-> "login", username |-> username, password |-> password,
                    out |-> login(users, username, password, now)]
        /\ UNCHANGED <<pending, users, nextId, now, tok>>

RegisterUser ==
    \E user_in \in UserCreateInputs, salt \in Salts :
        LET r == register_user(users, nextId, user_in, salt)
        IN  /\ r.out.kind = "return" => nextId <= MaxId
            /\ users' = r.store
            /\ nextId' = IF r.out.kind = "return" THEN nextId + 1 ELSE nextId
            /\ resp' = [op |-> "register_user", user_in |-> user_in, out |-> r.out]
            /\ UNCHANGED <<pending, now, tok>>

Next == Tick \/ Login \/ RegisterUser

Spec == Init /\ [][Next]_vars

(***************************************************************************)
(* The user routes together: registration through both routes, the        *)
(* admin-gated update, deletion and login against one users table.  The    *)
(* /auth/register requests here carry one password and one salt.           *)
(***************************************************************************)
CreateEmails == NewEmails \cup {"A@x.com "}

UserUpdateInputs ==
    [full_name : FullNames, is_active : {NoFlag, Flag(TRUE), Flag(FALSE)}]

\* bearer tokens a client may hold: minted with the secret for an administrator
\* and for a staff user, or no usable token
AdminToken ==
    jwt_encode([sub |-> "admin@x.com", role |-> "admin", iat |-> 0, exp |-> 60,
                iss |-> JWT_ISSUER, aud |-> JWT_AUDIENCE], SECRET_KEY, JWT_ALGORITHM)

StaffToken ==
    jwt_encode([sub |-> "a@x.com", role |-> "staff", iat |-> 0, exp |-> 60,
                iss |-> JWT_ISSUER, aud |-> JWT_AUDIENCE], SECRET_KEY, JWT_ALGORITHM)

PresentedTokens == {AdminToken, StaffToken, BrokenToken}

CreateUser ==
    \E email \in CreateEmails, password \in Passwords, salt \in Salts :
        LET payload == [email |-> email, password |-> password,
                        full_name |-> None, role_ids |-> {}]
            r == create_user(users, nextId, payload, salt)
        IN  /\ r.out.kind = "return" => nextId <= MaxId
            /\ users' = r.store
            /\ nextId' = IF r.out.kind = "return" THEN nextId + 1 ELSE nextId
            /\ resp' = [op |-> "create_user", payload |-> payload, out |-> r.out]
            /\ UNCHANGED <<pending, now, tok>>

UpdateUser ==
    \E token \in PresentedTokens, user_id \in 1..MaxId, payload \in UserUpdateInputs :
        LET r == update_user(users, token, user_id, payload, now)
        IN  /\ users' = r.store
            /\ resp' = [op |-> "update_user", token |-> token, user_id |-> user_id,
                        payload |-> payload, at |-> now, out |-> r.out]
            /\ UNCHANGED <<pending, nextId, now, tok>>

DeleteUser ==
    \E user_id \in 1..MaxId :
        LET r == delete_user(users, user_id)
        IN  /\ users' = r.store
            /\ resp' = [op |-> "delete_user", user_id |-> user_id, out |-> r.out]
            /\ UNCHANGED <<pending, nextId, now, tok>>

AdminRegisterUser ==
    \E email \in NewEmails, role_ids \in RoleIdSets :
        LET user_in == [email |-> email, password |-> "pw123", full_name |-> None,
                        role_ids |-> role_ids]
            r == register_user(users, nextId, user_in, "saltA")
        IN  /\ r.out.kind = "return" => nextId <= MaxId
            /\ users' = r.store
            /\ nextId' = IF r.out.kind = "return" THEN nextId + 1 ELSE nextId
            /\ resp' = [op |-> "register_user", user_in |-> user_in, out |-> r.out]
            /\ UNCHANGED <<pending, now, tok>>

UsersInit == Init

UsersNext ==
    \/ Tick
    \/ Login
    \/ AdminRegisterUser
    \/ CreateUser
    \/ UpdateUser
    \/ DeleteUser

UsersSpec == UsersInit /\ [][UsersNext]_vars

(***************************************************************************)
(* The update route on its own: a table of an administrator and a staff    *)
(* user, and update_user requests with every token, id and payload,        *)
(* full names included.                                                    *)
(***************************************************************************)
StaffSeed ==
    User(2, "a@x.com", "Al Staff", get_password_hash("hunter2", "saltB"),
         "staff", TRUE, {2})

ProfileUpdates ==
    [full_name : {None, "Ann Lee"}, is_active : {NoFlag, Flag(TRUE), Flag(FALSE)}]

UpdateInit ==
    /\ users = {AdminSeed, StaffSeed}
    /\ nextId = 3
    /\ now = 0
    /\ tok = NoToken
    /\ resp = NoResp
    /\ pending = NoRequests

UpdateProfile ==
    \E token \in PresentedTokens, user_id \in 1..MaxId, payload \in ProfileUpdates :
        LET r == update_user(users, token, user_id, payload, now)
        IN  /\ users' = r.store
            /\ resp' = [op |-> "update_user", token |-> token, user_id |-> user_id,
                        payload |-> payload, at |-> now, out |-> r.out]
            /\ UNCHANGED <<pending, nextId, now, tok>>

UpdateNext == Tick \/ UpdateProfile

UpdateSpec == UpdateInit /\ [][UpdateNext]_vars

(***************************************************************************)
(* /auth/register handled by concurrent workers, each with its own session *)
(* (db/session.py:43).  A request takes two steps on the database: the     *)
(* duplicate query (api/auth.py:122), then db.add and db.commit            *)
(* (api/auth.py:151-152), where the unique index on users.email            *)
(* (db/models.py:154-156) is enforced.                                     *)
(***************************************************************************)
Requests == {1, 2}

Idle == [pc |-> "idle"]

\* sqlalchemy.exc.IntegrityError raised by db.commit(); nothing catches it
IntegrityError == Raise("IntegrityError", "UNIQUE constraint failed: users.email")

ConcurrentInit ==
    /\ users \in {{}, {AdminSeed}}
    /\ nextId = Cardinality(users) + 1
    /\ now = 0
    /\ tok = NoToken
    /\ resp = NoResp
    /\ pending = [r \in Requests |-> Idle]

\* existing_user = db.query(User).filter(User.email == user_in.email).first()
\* and the 400 raised when a row was found
RegisterQuery(r) ==
    /\ pending[r].pc = "idle"
    /\ \E user_in \in UserCreateInputs :
           LET existing_user == find_by_email(users, user_in.email)
           IN  pending' = [pending EXCEPT ![r] =
                   IF existing_user # {}
                   THEN [pc |-> "done", user_in |-> user_in,
                         out |-> HTTPException(400,
                                     "A user with this email already exists.",
                                     NoHeaders)]
                   ELSE [pc |-> "insert", user_in |-> user_in]]
    /\ UNCHANGED <<users, nextId, now, tok, resp>>

\* get_password_hash, User(...), roles, db.add(new_user), db.commit()
RegisterCommit(r) ==
    /\ pending[r].pc = "insert"
    /\ \E salt \in Salts :
           LET user_in == pending[r].user_in
               hashed_password == get_password_hash(user_in.password, salt)
               roles == IF user_in.role_ids # {}
                        THEN {x.id : x \in {y \in RoleTable : y.id \in user_in.role_ids}}
                        ELSE {}
               new_user == User(nextId, user_in.email, user_in.full_name,
                                hashed_password, "staff", TRUE, roles)
           IN  IF \E u \in users : u.email = new_user.email
               THEN /\ pending' = [pending EXCEPT ![r] =
                           [pc |-> "done", user_in |-> user_in, out |-> IntegrityError]]
                    /\ UNCHANGED <<users, nextId>>
               ELSE /\ users' = users \cup {new_user}
                    /\ nextId' = nextId + 1
                    /\ pending' = [pending EXCEPT ![r] =
                           [pc |-> "done", user_in |-> user_in, out |-> Return(new_user)]]
    /\ UNCHANGED <<now, tok, resp>>

ConcurrentNext == \E r \in Requests : RegisterQuery(r) \/ RegisterCommit(r)

ConcurrentSpec == ConcurrentInit /\ [][ConcurrentNext]_vars

(***************************************************************************)
(* The password functions on their own: the table holds one row whose      *)
(* hashed_password column is any string (written by get_password_hash, or  *)
(* put there by a migration or by hand), and passwords are verified        *)
(* against it directly and through login.                                  *)
(***************************************************************************)
\* strings that get_password_hash did not produce: text that is no hash, a
\* hash of a scheme the context does not have, a bcrypt hash cut short
NotAHash == [scheme |-> "", salt |-> "", digest |-> <<>>]
Md5CryptHash == [scheme |-> "$1$", salt |-> "saltA", digest |-> <<"saltA", "pw123">>]
TruncatedBcrypt == [scheme |-> "$2b$", salt |-> "saltA", digest |-> <<"saltA">>]

MalformedHashes == {NotAHash, Md5CryptHash, TruncatedBcrypt}

StoredHashes ==
    {get_password_hash(p, s) : p \in Passwords, s \in Salts} \cup MalformedHashes

HasherInit ==
    /\ users \in {{User(1, "a@x.com", None, h, "staff", TRUE, {})} : h \in StoredHashes}
    /\ nextId = 2
    /\ now = 0
    /\ tok = NoToken
    /\ resp = NoResp
    /\ pending = NoRequests

VerifyPassword ==
    \E plain_password \in Passwords, u \in users :
        /\ resp' = [op |-> "verify_password", plain_password |-> plain_password,
                    hashed_password |-> u.hashed_password,
                    out |-> verify_password(plain_password, u.hashed_password)]
        /\ UNCHANGED <<pending, users, nextId, now, tok>>

HasherNext == Tick \/ VerifyPassword \/ Login

HasherSpec == HasherInit /\ [][HasherNext]_vars

(***************************************************************************)
(* The token functions on their own: a bearer token of any content is      *)
(* presented, tokens are minted by direct calls of create_access_token,    *)
(* and the clock advances.                                                 *)
(***************************************************************************)
Subjects == {"a@x.com"}
RoleClaims == {"admin", "staff"}
ExpClaims == {0, 60}
IssuerClaims == {JWT_ISSUER, "other-issuer"}
AudienceClaims == {JWT_AUDIENCE, "other-audience"}
Keys == {SECRET_KEY, "attacker-key"}
Algorithms == {JWT_ALGORITHM, "none"}
Deltas == {NoDelta, Minutes(-1), Minutes(0), Minutes(1)}

FullClaims ==
    [sub : Subjects, role : RoleClaims, iat : {0}, exp : ExpClaims,
     iss : IssuerClaims, aud : AudienceClaims]

\* every claims mapping: any subset of the optional keys may be missing
ClaimSets ==
    {[k \in D \cup {"iat"} |-> f[k]] :
        f \in FullClaims, D \in SUBSET {"sub", "role", "exp", "iss", "aud"}}

\* tokens minted with the secret whose claims segment was rewritten afterwards:
\* the role raised to admin, or the expiry pushed back
TamperedTokens ==
    {[wf |-> TRUE, alg |-> JWT_ALGORITHM, claims |-> [c EXCEPT !["role"] = "admin"],
      sig |-> HMAC(SECRET_KEY, JWT_ALGORITHM, c)] :
        c \in {x \in ClaimSets : "role" \in DOMAIN x /\ x["role"] = "staff"}}
    \cup
    {[wf |-> TRUE, alg |-> JWT_ALGORITHM, claims |-> [c EXCEPT !["exp"] = 60],
      sig |-> HMAC(SECRET_KEY, JWT_ALGORITHM, c)] :
        c \in {x \in ClaimSets : "exp" \in DOMAIN x /\ x["exp"] = 0}}

\* every three-segment token: signed by either key, signature intact or changed
AllTokens ==
    {[wf |-> TRUE, alg |-> a, claims |-> c,
      sig |-> [key |-> k, alg |-> a, claims |-> c, flipped |-> fl]] :
        a \in Algorithms, c \in ClaimSets, k \in Keys, fl \in BOOLEAN}
    \cup TamperedTokens
    \cup {BrokenToken}

\* keyword arguments of a direct call of create_access_token
EncodeCalls ==
    {[subject |-> s, expires_delta |-> d] : s \in Subjects, d \in Deltas}
    \cup {[subject |-> s] : s \in Subjects}
    \cup {[subject |-> s, role |-> r] : s \in Subjects, r \in RoleClaims}

TokenInit ==
    /\ users = {}
    /\ nextId = 1
    /\ now = 0
    /\ tok \in AllTokens
    /\ resp = NoResp
    /\ pending = NoRequests

CreateAccessToken ==
    \E kwargs \in EncodeCalls :
        LET c == create_access_token(kwargs, now)
        IN  /\ resp' = [op |-> "create_access_token", kwargs |-> kwargs, out |-> c]
            /\ tok' = IF c.kind = "return" THEN c.value ELSE tok
            /\ UNCHANGED <<pending, users, nextId, now>>

VerifyAccessToken ==
    /\ resp' = [op |-> "verify_access_token", at |-> now,
                out |-> verify_access_token(tok, now)]
    /\ UNCHANGED <<pending, users, nextId, now, tok>>

GetCurrentUser ==
    /\ resp' = [op |-> "get_current_user", at |-> now,
                out |-> get_current_user(tok, now)]
    /\ UNCHANGED <<pending, users, nextId, now, tok>>

RequireAdmin ==
    /\ resp' = [op |-> "require_admin", at |-> now,
                out |-> require_admin(tok, now)]
    /\ UNCHANGED <<pending, users, nextId, now, tok>>

TokenNext ==
    Tick \/ CreateAccessToken \/ VerifyAccessToken \/ GetCurrentUser \/ RequireAdmin

TokenSpec == TokenInit /\ [][TokenNext]_vars

(***************************************************************************)
(* Predicates on tokens and credentials, stated independently of the       *)
(* decoding code.                                                          *)
(***************************************************************************)
\* the secret is the one the stored hash was computed from
Matches(password, hashed_password) ==
    hashed_password = get_password_hash(password, hashed_password.salt)

\* a three-segment token carrying the configured algorithm and the MAC of
\* its own header and claims under the configured secret
SignedWithSecret(token) ==
    /\ token.wf
    /\ token.alg = JWT_ALGORITHM
    /\ token.sig = [key |-> SECRET_KEY, alg |-> token.alg,
                    claims |-> token.claims, flipped |-> FALSE]

Expired(token, t) == "exp" \in DOMAIN token.claims /\ token.claims["exp"] < t

\* an iss or aud claim that is not the configured value
Misaddressed(token) ==
    \/ "iss" \in DOMAIN token.claims /\ token.claims["iss"] # JWT_ISSUER
    \/ "aud" \in DOMAIN token.claims /\ token.claims["aud"] # JWT_AUDIENCE

Malformed == Raise("JWTError", "Token is invalid or corrupted")
TokenExpired == Raise("ExpiredSignatureError", "Token has expired")

(***************************************************************************)
(* C1.  For every stored record and every secret that verifies against its *)
(* hash, login returns a token (no failure, no unhandled error), and       *)
(* decoding the token inside its validity window yields sub = the record's *)
(* email and role = the record's role.                                     *)
(***************************************************************************)
C1_LoginReturnsToken ==
    resp.op = "login" =>
        \A u \in users :
            (u.email = resp.username /\ Matches(resp.password, u.hashed_password)) =>
                /\ resp.out.kind = "return"
                /\ LET token == resp.out.value.access_token
                       d == verify_access_token(token, now)
                   IN  ~Expired(token, now) =>
                           /\ d.kind = "return"
                           /\ Get(d.value, "sub") = u.email
                           /\ Get(d.value, "role") = u.role

(***************************************************************************)
(* C2.  login with an identifier that has no record and login with an      *)
(* existing identifier and a non-matching secret give the same outcome:    *)
(* the same exception type, status, detail and headers, for every store    *)
(* state and every pair of such inputs.                                    *)
(***************************************************************************)
C2_SameFailure ==
    \A e1 \in Emails, e2 \in Emails, p1 \in Passwords, p2 \in Passwords :
        (/\ \A u \in users : u.email # e1
         /\ \E u \in users : u.email = e2 /\ ~Matches(p2, u.hashed_password))
        => /\ login(users, e1, p1, now) = login(users, e2, p2, now)
           /\ login(users, e1, p1, now).kind = "raise"
           /\ login(users, e1, p1, now).exc = "HTTPException"
           /\ login(users, e1, p1, now).status = 401

C2_Witness ==
    /\ resp.op = "login"
    /\ \E u \in users : u.email = resp.username /\ ~Matches(resp.password, u.hashed_password)
    /\ \E e \in Emails : \A u \in users : u.email # e
    /\ resp.out.kind = "raise"

(***************************************************************************)
(* C3.  Round trip: for every subject and role, decoding the token made by *)
(* encode(subject, role) inside its validity window succeeds with          *)
(* sub = subject and role = role.                                          *)
(***************************************************************************)
C3_RoundTrip ==
    (resp.op = "create_access_token" /\ "role" \in DOMAIN resp.kwargs) =>
        /\ resp.out.kind = "return"
        /\ LET token == resp.out.value
               d == verify_access_token(token, now)
           IN  ~Expired(token, now) =>
                   /\ d.kind = "return"
                   /\ Get(d.value, "sub") = resp.kwargs["subject"]
                   /\ Get(d.value, "role") = resp.kwargs["role"]

(***************************************************************************)
(* C4.  For every token that resolves, the admin gate fails with 403 when  *)
(* the role claim is not the required role and returns the subject when it *)
(* is; in particular the token login issues for an admin passes the gate.  *)
(***************************************************************************)
\* C4, first half: the gate's answer on a token that get_current_user resolves
C4_GateOnResolved ==
    (resp.op = "require_admin" /\ get_current_user(tok, resp.at).kind = "return") =>
        IF Get(tok.claims, "role") = "admin"
        THEN resp.out = Return(Get(tok.claims, "sub"))
        ELSE /\ resp.out.kind = "raise"
             /\ resp.out.exc = "HTTPException"
             /\ resp.out.status = 403

\* C4, whole claim: the gate on resolving tokens, and the token login issues
\* for an admin user passes require_admin.
C4_AdminLoginPassesGate ==
    /\ C4_GateOnResolved
    /\ resp.op = "login" =>
           \A u \in users :
               (/\ u.email = resp.username
                /\ u.role = "admin"
                /\ Matches(resp.password, u.hashed_password)) =>
                   /\ resp.out.kind = "return"
                   /\ LET token == resp.out.value.access_token
                      IN  ~Expired(token, now) =>
                              require_admin(token, now) = Return(u.email)

(***************************************************************************)
(* C5.  When identity resolution fails on a token, the role gate fails on  *)
(* the same token with the same failure: the same 401 outcome that         *)
(* get_current_user gives.                                                 *)
(***************************************************************************)
C5_GatePropagatesFailure ==
    (resp.op = "require_admin" /\ get_current_user(tok, resp.at).kind = "raise") =>
        resp.out = get_current_user(tok, resp.at)

(***************************************************************************)
(* C6.  A token encoded with a negative ttl never decodes successfully: at *)
(* every time from its issue on, decode raises ExpiredSignatureError,      *)
(* which is a JWTError; and once decode has failed as expired, every later *)
(* decode of the same token fails the same way.                            *)
(***************************************************************************)
C6_NegativeTtlExpired ==
    /\ (/\ resp.op = "create_access_token"
        /\ resp.out.kind = "return"
        /\ "expires_delta" \in DOMAIN resp.kwargs
        /\ resp.kwargs["expires_delta"] # NoDelta
        /\ resp.kwargs["expires_delta"][1] < 0)
       => /\ verify_access_token(resp.out.value, now) = TokenExpired
          /\ IsInstance(verify_access_token(resp.out.value, now).exc, "JWTError")
    /\ (resp.op = "verify_access_token" /\ resp.out = TokenExpired)
       => verify_access_token(tok, now) = TokenExpired

C6_Witness ==
    /\ resp.op = "verify_access_token"
    /\ SignedWithSecret(tok)
    /\ "exp" \in DOMAIN tok.claims
    /\ tok.claims["exp"] < tok.claims["iat"]
    /\ resp.out = TokenExpired
    /\ now > resp.at

(***************************************************************************)
(* C7.  A string that is not a token signed with the configured secret (a  *)
(* structurally broken string, a token whose signature segment or claims   *)
(* were changed, a token signed with another key) fails decode as          *)
(* malformed and never yields claims.                                      *)
(***************************************************************************)
C7_UnsignedIsMalformed ==
    (resp.op = "verify_access_token" /\ ~SignedWithSecret(tok)) =>
        resp.out = Malformed

C7_Witness ==
    /\ resp.op = "verify_access_token"
    /\ tok.wf
    /\ tok.sig = [key |-> SECRET_KEY, alg |-> JWT_ALGORITHM,
                  claims |-> tok.claims, flipped |-> TRUE]
    /\ ~Expired(tok, resp.at)
    /\ resp.out = Malformed

C9_CheckOrder ==
    resp.op = "verify_access_token" =>
        /\ ~SignedWithSecret(tok) => resp.out = Malformed
        /\ (SignedWithSecret(tok) /\ Expired(tok, resp.at)) => resp.out = TokenExpired

C9_Witness ==
    /\ resp.op = "verify_access_token"
    /\ SignedWithSecret(tok)
    /\ Expired(tok, resp.at)
    /\ Get(tok.claims, "iss") = "other-issuer"
    /\ Get(tok.claims, "aud") = "other-audience"
    /\ resp.out = TokenExpired

(***************************************************************************)
(* C10.  decode returns claims only when the signature check, the expiry   *)
(* check and the issuer/audience check have all passed (a token without an *)
(* aud claim passes the audience check), and then returns the token's own  *)
(* claims; when decode fails, decode, get_current_user and require_admin   *)
(* all raise, and what they raise carries no value of the token.           *)
(***************************************************************************)
FailureDetails ==
    {"Token has expired", "Token is invalid or corrupted",
     "Invalid or corrupted token", "Token missing subject claim",
     "Admin privileges required"}

C10_NoPartialClaims ==
    /\ (resp.op = "verify_access_token" /\ resp.out.kind = "return")
       => /\ SignedWithSecret(tok)
          /\ ~Expired(tok, resp.at)
          /\ Get(tok.claims, "iss") = JWT_ISSUER
          /\ "aud" \in DOMAIN tok.claims => tok.claims["aud"] = JWT_AUDIENCE
          /\ resp.out.value = tok.claims
    /\ (/\ resp.op \in {"verify_access_token", "get_current_user", "require_admin"}
        /\ \/ ~SignedWithSecret(tok)
           \/ Expired(tok, resp.at)
           \/ Get(tok.claims, "iss") # JWT_ISSUER
           \/ "aud" \in DOMAIN tok.claims /\ tok.claims["aud"] # JWT_AUDIENCE)
       => /\ resp.out.kind = "raise"
          /\ "value" \notin DOMAIN resp.out
          /\ resp.out.detail \in FailureDetails

C10_Witness ==
    /\ resp.op = "require_admin"
    /\ SignedWithSecret(tok)
    /\ Expired(tok, resp.at)
    /\ Get(tok.claims, "role") = "admin"
    /\ Get(tok.claims, "sub") # None
    /\ resp.out.kind = "raise"

(***************************************************************************)
(* C11.  As claimed: on a token that decodes, get_current_user returns the *)
(* identity made of the sub claim and the role claim; so two tokens that   *)
(* decode with the same sub and different role claims resolve to different *)
(* identities.                                                             *)
(***************************************************************************)
\* the presented token with its role claim replaced, signed with the secret
WithRole(token, role) ==
    jwt_encode([k \in DOMAIN token.claims \cup {"role"} |->
                   IF k = "role" THEN role ELSE token.claims[k]],
               SECRET_KEY, JWT_ALGORITHM)

MissingSubject == HTTPException(401, "Token missing subject claim", BearerHeaders)

ExpiredFailure == HTTPException(401, "Token has expired", BearerHeaders)
InvalidFailure == HTTPException(401, "Invalid or corrupted token", BearerHeaders)

C12_OneToOneFailures ==
    resp.op = "get_current_user" =>
        LET d == verify_access_token(tok, resp.at)
        IN  /\ d.kind = "raise" => d \in {TokenExpired, Malformed}
            /\ d = TokenExpired <=> resp.out = ExpiredFailure
            /\ d = Malformed <=> resp.out = InvalidFailure
            /\ ExpiredFailure # InvalidFailure
            /\ resp.out.kind = "raise" =>
                   resp.out \in {ExpiredFailure, InvalidFailure, MissingSubject}
            /\ resp.out = MissingSubject => d.kind = "return"

C12_Witness ==
    /\ resp.op = "get_current_user"
    /\ SignedWithSecret(tok)
    /\ Expired(tok, resp.at)
    /\ resp.out = ExpiredFailure

(***************************************************************************)
(* C13.  Every call of get_current_user and of require_admin ends in a     *)
(* returned value or in an HTTPException with a 4xx status (400, 401 or    *)
(* 403); no malformed, expired or mis-addressed token leaves them as an    *)
(* exception of another type.                                              *)
(***************************************************************************)
TypedOutcome(out) ==
    \/ out.kind = "return"
    \/ /\ out.kind = "raise"
       /\ out.exc = "HTTPException"
       /\ out.status \in {400, 401, 403}

C13_TypedOutcomes ==
    resp.op \in {"get_current_user", "require_admin"} => TypedOutcome(resp.out)

(***************************************************************************)
(* C14.  A register_user request whose email already has a row is answered *)
(* with HTTPException 400 "A user with this email already exists.", and    *)
(* the users table is left as it was: no row added, none changed.          *)
(***************************************************************************)
DuplicateIdentifier ==
    HTTPException(400, "A user with this email already exists.", NoHeaders)

C14_DuplicateRejected ==
    [][(/\ now' = now
        /\ resp'.op = "register_user"
        /\ \E u \in users : u.email = resp'.user_in.email)
       => /\ resp'.out = DuplicateIdentifier
          /\ users' = users
          /\ nextId' = nextId]_vars

C14_Witness ==
    /\ resp.op = "register_user"
    /\ resp.out = DuplicateIdentifier
    /\ \E u \in users : u.email = resp.user_in.email
    /\ Cardinality(users) >= 2

(***************************************************************************)
(* C15.  A register_user request whose email has no row adds exactly one   *)
(* row: it carries the request's email, a hash that the request's password *)
(* verifies against, and the default role "staff"; every row that was in   *)
(* the table is still there unchanged; the response is the new row and no  *)
(* token is issued.                                                        *)
(***************************************************************************)
C15_OneRowAdded ==
    [][(/\ now' = now
        /\ resp'.op = "register_user"
        /\ \A u \in users : u.email # resp'.user_in.email)
       => /\ \E new \in users' :
                 /\ new \notin users
                 /\ users' = users \cup {new}
                 /\ new.email = resp'.user_in.email
                 /\ Matches(resp'.user_in.password, new.hashed_password)
                 /\ new.role = "staff"
                 /\ resp'.out = Return(new)
          /\ Cardinality(users') = Cardinality(users) + 1
          /\ "access_token" \notin DOMAIN resp'.out.value
          /\ tok' = tok]_vars

C15_Witness ==
    /\ resp.op = "register_user"
    /\ resp.out.kind = "return"
    /\ resp.out.value \in users
    /\ resp.out.value.role = "staff"
    /\ AdminSeed \in users
    /\ Cardinality(users) = 3

(***************************************************************************)
(* C16.  In every users table reachable through register_user and          *)
(* create_user requests, every stored email is in its lower-case form and  *)
(* no two rows have emails that are equal after lower-casing.              *)
(***************************************************************************)
C16_NormalizedUnique ==
    /\ \A u \in users : u.email = lower(u.email)
    /\ \A u \in users, v \in users : lower(u.email) = lower(v.email) => u = v

(***************************************************************************)
(* C17.  login finds the row by the lower-cased email: when a row exists   *)
(* whose email equals the submitted username up to letter case and the     *)
(* password verifies against its hash, the request is not answered with    *)
(* the invalid-credentials failure, and its outcome is the one login gives *)
(* for the stored spelling.                                                *)
(***************************************************************************)
InvalidCredentials == HTTPException(401, "Invalid credentials", BearerHeaders)

C17_CaseInsensitiveLookup ==
    resp.op = "login" =>
        \A u \in users :
            (/\ lower(u.email) = lower(resp.username)
             /\ Matches(resp.password, u.hashed_password))
            => /\ resp.out # InvalidCredentials
               /\ resp.out = login(users, u.email, resp.password, now)

(***************************************************************************)
(* C18.  In every users table reachable through register_user,             *)
(* create_user, update_user, delete_user and login requests, the           *)
(* hashed_password column of every row is an output of get_password_hash   *)
(* (a bcrypt hash of some password under some salt), never the password    *)
(* itself.                                                                 *)
(***************************************************************************)
HasherOutputs == {get_password_hash(p, s) : p \in Passwords, s \in Salts}

C18_OnlyHashesStored ==
    \A u \in users :
        /\ u.hashed_password \in HasherOutputs
        /\ u.hashed_password.scheme = "$2b$"
        /\ \E p \in Passwords : verify_password(p, u.hashed_password) = Return(TRUE)

C18_Witness ==
    /\ resp.op = "update_user"
    /\ resp.out.kind = "return"
    /\ resp.out.value \in users
    /\ resp.out.value.email \in NewEmails
    /\ ~resp.out.value.is_active
    /\ resp.out.value.hashed_password = get_password_hash("pw123", "saltA")

(***************************************************************************)
(* C19.  Whatever the users table holds (the row of the token's subject    *)
(* deleted, deactivated or never created), a token signed with the secret  *)
(* resolves to its subject at every time up to its exp, a token with the   *)
(* admin role passes require_admin at every such time, and an update_user  *)
(* request carrying it is never stopped by the gate.                       *)
(***************************************************************************)
C19_ValidUntilExpiry ==
    /\ \A token \in PresentedTokens :
           (SignedWithSecret(token) /\ ~Expired(token, now)) =>
               /\ get_current_user(token, now) = Return(token.claims["sub"])
               /\ token.claims["role"] = "admin" =>
                      require_admin(token, now) = Return(token.claims["sub"])
    /\ (/\ resp.op = "update_user"
        /\ SignedWithSecret(resp.token)
        /\ ~Expired(resp.token, resp.at)
        /\ resp.token.claims["role"] = "admin")
       => \/ resp.out.kind = "return"
          \/ resp.out = NotFound(resp.user_id)

\* the admin row was deactivated, and a later update of another row with the
\* admin's token went through, one tick before the token's exp
C19_Witness ==
    /\ resp.op = "update_user"
    /\ resp.token = AdminToken
    /\ resp.at > 0
    /\ resp.out.kind = "return"
    /\ \A u \in users : u.email = "admin@x.com" => (~u.is_active /\ u.id # resp.user_id)
    /\ \E u \in users : u.email = "admin@x.com"

(***************************************************************************)
(* C20.  require_admin checks that the subject is present before it looks  *)
(* at the role: a token that is signed with the secret, unexpired and      *)
(* correctly addressed but has no sub claim is rejected with 401 "Token    *)
(* missing subject claim" whatever its role claim is, and the gate returns *)
(* only for a token that passed the signature, expiry, issuer/audience,    *)
(* subject and role checks.                                                *)
(***************************************************************************)
C20_SubjectBeforeRole ==
    resp.op = "require_admin" =>
        /\ (/\ SignedWithSecret(tok)
            /\ ~Expired(tok, resp.at)
            /\ Get(tok.claims, "iss") = JWT_ISSUER
            /\ ~Misaddressed(tok)
            /\ "sub" \notin DOMAIN tok.claims)
           => resp.out = MissingSubject
        /\ resp.out.kind = "return"
           => /\ SignedWithSecret(tok)
              /\ ~Expired(tok, resp.at)
              /\ ~Misaddressed(tok)
              /\ "sub" \in DOMAIN tok.claims
              /\ Get(tok.claims, "role") = "admin"

(***************************************************************************)
(* C21.  An update_user request on which require_admin raises (403, 401 or *)
(* a decoding failure) is answered with that failure and leaves the users  *)
(* table exactly as it was, for every target id and payload.               *)
(***************************************************************************)
C21_RejectedUpdateChangesNothing ==
    [][(/\ now' = now
        /\ resp'.op = "update_user"
        /\ require_admin(resp'.token, resp'.at).kind = "raise")
       => /\ resp'.out = require_admin(resp'.token, resp'.at)
          /\ users' = users
          /\ nextId' = nextId]_vars

\* a staff token asked to deactivate an existing active row and was refused
C21_Witness ==
    /\ resp.op = "update_user"
    /\ resp.token = StaffToken
    /\ resp.out = HTTPException(403, "Admin privileges required", NoHeaders)
    /\ resp.payload.is_active = Flag(FALSE)
    /\ \E u \in users : u.id = resp.user_id /\ u.is_active

(***************************************************************************)
(* C22.  When two /auth/register requests for the same email are handled   *)
(* concurrently, in any interleaving of their query and commit steps, the  *)
(* table never holds two rows for that email, and once both have ended,    *)
(* one returned its new row and the other was answered with the 400        *)
(* duplicate failure, not with a database error.                           *)
(***************************************************************************)
C22_ConcurrentRegisterSafe ==
    /\ \A u \in users, v \in users : u.email = v.email => u = v
    /\ \A r1 \in Requests, r2 \in Requests :
           (/\ r1 # r2
            /\ pending[r1].pc = "done"
            /\ pending[r2].pc = "done"
            /\ pending[r1].user_in.email = pending[r2].user_in.email
            /\ pending[r1].out.kind = "return")
           => pending[r2].out = DuplicateIdentifier

(***************************************************************************)
(* C23.  After register_user has stored a row for an email and password,   *)
(* login with that email and password returns a token; decoded inside its  *)
(* validity window the token has sub = the email and role = "staff", the   *)
(* default role.                                                           *)
(***************************************************************************)
C23_RegisterThenLogin ==
    resp.op = "login" =>
        \A u \in users :
            (/\ u # AdminSeed
             /\ u.email = resp.username
             /\ Matches(resp.password, u.hashed_password))
            => /\ u.role = "staff"
               /\ resp.out.kind = "return"
               /\ LET token == resp.out.value.access_token
                      d == verify_access_token(token, now)
                  IN  ~Expired(token, now) =>
                          /\ d.kind = "return"
                          /\ Get(d.value, "sub") = u.email
                          /\ Get(d.value, "role") = "staff"

(***************************************************************************)
(* C24.  verify_password returns False, and does not raise, for every      *)
(* stored string that get_password_hash did not produce; and login against *)
(* a row holding such a string is answered with the 401 invalid            *)
(* credentials failure.                                                    *)
(***************************************************************************)
C24_MalformedHashIsFalse ==
    /\ (resp.op = "verify_password" /\ resp.hashed_password \in MalformedHashes)
       => resp.out = Return(FALSE)
    /\ resp.op = "login" =>
           \A u \in users :
               (u.email = resp.username /\ u.hashed_password \in MalformedHashes)
               => resp.out = InvalidCredentials

(***************************************************************************)
(* C25.  Every token create_access_token returns has exp = iat + 60 times  *)
(* the caller's expires_delta in minutes when one is given (zero and       *)
(* negative values included), exp = iat + 60 times                         *)
(* ACCESS_TOKEN_EXPIRE_MINUTES when none is given, iss and aud equal to    *)
(* the configured issuer and audience; so decoding it never fails on       *)
(* issuer or audience: it returns the claims, or fails as expired.         *)
(***************************************************************************)
C25_ExpiryAndAddressing ==
    (resp.op = "create_access_token" /\ resp.out.kind = "return") =>
        LET token == resp.out.value
            c == token.claims
            ttl == IF "expires_delta" \in DOMAIN resp.kwargs
                      /\ resp.kwargs["expires_delta"] # NoDelta
                   THEN resp.kwargs["expires_delta"][1]
                   ELSE ACCESS_TOKEN_EXPIRE_MINUTES
        IN  /\ DOMAIN c = {"sub", "iat", "exp", "iss", "aud"}
            /\ c["iat"] <= now
            /\ c["exp"] = c["iat"] + 60 * ttl
            /\ c["iss"] = JWT_ISSUER
            /\ c["aud"] = JWT_AUDIENCE
            /\ c["sub"] = resp.kwargs["subject"]
            /\ SignedWithSecret(token)
            /\ ~Misaddressed(token)
            /\ verify_access_token(token, now) =
                   IF c["exp"] < now THEN TokenExpired ELSE Return(c)

\* a token issued with expires_delta = 0 after the clock had advanced
C25_Witness ==
    /\ resp.op = "create_access_token"
    /\ resp.out.kind = "return"
    /\ "expires_delta" \in DOMAIN resp.kwargs
    /\ resp.kwargs["expires_delta"] = Minutes(0)
    /\ resp.out.value.claims["iat"] > 0
    /\ resp.out.value.claims["exp"] = resp.out.value.claims["iat"]

(***************************************************************************)
(* C26.  A create_user request is answered either with the 409 conflict,   *)
(* when a row with the lower-cased email exists, or with the one row it    *)
(* has added: email = the lower-cased input, hashed_password a hash the    *)
(* request's password verifies against, role "staff" when the payload      *)
(* names none.                                                             *)
(***************************************************************************)
EmailConflict == HTTPException(409, "Email already registered", NoHeaders)

C26_CreateUserPersists ==
    resp.op = "create_user" =>
        \/ resp.out = EmailConflict
        \/ /\ resp.out.kind = "return"
           /\ resp.out.value \in users
           /\ resp.out.value.email = lower(resp.payload.email)
           /\ Matches(resp.payload.password, resp.out.value.hashed_password)
           /\ resp.out.value.role = "staff"

(***************************************************************************)
(* C27.  login does not read is_active: in every users table its outcome   *)
(* for every username and password is the outcome it has on the table with *)
(* every row's is_active flag inverted; and login for a deactivated row    *)
(* with the matching password returns a token.                             *)
(***************************************************************************)
\* C27, first half: the outcome does not depend on the flag
C27_ActiveFlagIgnored ==
    \A username \in Emails, password \in Passwords :
        login(users, username, password, now)
            = login({[u EXCEPT !.is_active = ~@] : u \in users},
                    username, password, now)

\* C27, whole claim
C27_DeactivatedUserGetsToken ==
    /\ C27_ActiveFlagIgnored
    /\ resp.op = "login" =>
           \A u \in users :
               (/\ ~u.is_active
                /\ u.email = resp.username
                /\ Matches(resp.password, u.hashed_password))
               => /\ resp.out.kind = "return"
                  /\ "access_token" \in DOMAIN resp.out.value

(***************************************************************************)
(* C28.  Every row created through register_user has "staff" in its role   *)
(* column whatever role ids the request named (those go to the roles       *)
(* relationship only); login passes that column as the token's role, and   *)
(* no token issued for such a user, by login or by create_access_token     *)
(* for the user's email, passes require_admin.                             *)
(***************************************************************************)
C28_RegisteredNeverAdmin ==
    /\ resp.op = "register_user" /\ resp.out.kind = "return"
       => /\ resp.out.value.role = "staff"
          /\ resp.out.value.roles = resp.user_in.role_ids \cap {r.id : r \in RoleTable}
    /\ \A u \in users :
           u # AdminSeed =>
               /\ u.role = "staff"
               /\ \A password \in Passwords :
                      LET out == login(users, u.email, password, now)
                      IN  out.kind = "return" =>
                              require_admin(out.value.access_token, now).kind = "raise"
               /\ LET c == create_access_token([subject |-> u.email], now)
                  IN  /\ c.kind = "return"
                      /\ require_admin(c.value, now)
                             = HTTPException(403, "Admin privileges required", NoHeaders)

\* a row registered with the admin role's id in role_ids
C28_Witness ==
    /\ resp.op = "register_user"
    /\ resp.out.kind = "return"
    /\ resp.user_in.role_ids = {1}
    /\ resp.out.value \in users
    /\ resp.out.value.roles = {1}
    /\ resp.out.value.role = "staff"

(***************************************************************************)
(* C29.  A delete_user request, which carries no token, removes the row    *)
(* with the given id when there is one and returns None (204); otherwise   *)
(* it is answered 404 and the table is unchanged.  An update_user request, *)
(* by contrast, returns a row only when its token passed require_admin.    *)
(***************************************************************************)
C29_DeleteUngated ==
    [][/\ (now' = now /\ resp'.op = "delete_user")
          => IF \E u \in users : u.id = resp'.user_id
             THEN /\ resp'.out = Return(None)
                  /\ users' = {u \in users : u.id # resp'.user_id}
                  /\ Cardinality(users') = Cardinality(users) - 1
             ELSE /\ resp'.out = NotFound(resp'.user_id)
                  /\ users' = users
       /\ (now' = now /\ resp'.op = "update_user" /\ resp'.out.kind = "return")
          => require_admin(resp'.token, resp'.at).kind = "return"]_vars

\* a row was deleted by a request without any token, rows remaining
C29_Witness ==
    /\ resp.op = "delete_user"
    /\ resp.out = Return(None)
    /\ tok = NoToken
    /\ users # {}
    /\ \A u \in users : u.id # resp.user_id

==========================================================================
